---- MODULE Spec2Model ----
(***************************************************************************)
(* Model of src/client/client.py: a load-generating client that runs three *)
(* batches of HTTP calls (add order, query orders, remove item) on a       *)
(* thread pool of 20 workers, waiting for each batch before the next.      *)
(*                                                                         *)
(* The invocations of a batch are interchangeable, so the pool's work and  *)
(* the futures the script holds are kept as a bag (multiset) of task       *)
(* records: one record per invocation, holding the fields of that          *)
(* invocation (its callable, where its worker stands, how often it was     *)
(* run, what it sent, read and printed, the state of the connection it     *)
(* opened, the call that raised, if one did, and who still refers to it).  *)
(* A record stays in the bag for as long as its future exists. A future    *)
(* has two owners: the list bound to futures, which keeps a finished batch *)
(* alive until the next comprehension has been bound to the name and the   *)
(* old list has been taken apart, future by future; and the work item of   *)
(* the worker that ran it, until that worker deletes its work item. The    *)
(* third list is never replaced.                                           *)
(*                                                                         *)
(* The actions are the steps of the code and carry no bound. Each          *)
(* specification states, next to every step of its next-state relation,    *)
(* how much may be under way at one time in the states it explores.        *)
(***************************************************************************)
EXTENDS Integers, FiniteSets, Sequences, Bags, TLC

VARIABLES
    pc,         \* main thread: "begin" | "submit" | "release" | "wait" | "shutdown" | "done"
    phase,      \* 1 = add batch, 2 = query batch, 3 = remove batch
    n,          \* range(random.randint(10, 20)) of the running comprehension
    submitted,  \* executor.submit calls made by the running comprehension
    tasks,      \* bag of task records: work of the pool and futures that exist
    total,      \* history: submissions of the run (recorded under SpecTotals)
    wire        \* the request a single invocation hands to connection.request (SpecReq)

vars == <<pc, phase, n, submitted, tasks, total, wire>>

poolVars == <<pc, phase, n, submitted, tasks, total>>

-----------------------------------------------------------------------------
(* Bounds of the model (not program constants).                            *)

\* futures in existence at one time whose call the server or the network
\* has failed, answered non-2xx, or left hanging
MaxBad == 1

\* Spec, SpecTotals: invocations that are at one time queued or in a stage
\* a call passes through without waiting for the server (connecting,
\* connected, head sent, status line read, body read, text printed);
\* SpecSiblings: invocations at one time that have not sent their request
MaxBrief == 1

\* SpecCrowd: invocations at one time in a stage a call passes through
\* without waiting for the server
MaxTransit == 1

\* SpecAnyBatch: invocations at one time in such a stage
MaxAbreast == 2

\* SpecAnyBatch: work items in the queue at one time
MaxQueued == 1

\* Spec, SpecTotals: invocations that wait for the server at one time
MaxWaiting == 1

\* SpecLive, SpecFaults: invocations at one time that are submitted and
\* that their worker has not let go of
MaxBusy == 1

\* SpecSiblings: invocations at one time that have sent their request and
\* that their worker has not let go of
MaxPending == 1

\* completed invocations at one time whose worker has not yet deleted its
\* work item
MaxHeld == 1

\* SpecAnyBatch: how far a batch may exceed the pool's cap
MaxOver == 1

-----------------------------------------------------------------------------
(* Program constants and pure helpers.                                     *)

\* ThreadPoolExecutor(max_workers=20)
max_workers == 20

\* random.randint(a, b): any integer of [a, b], both ends included
randint(a, b) == a..b

\* the callable each batch submits
FnOf(p) ==
    CASE p = 1 -> "add_random_order"
      [] p = 2 -> "query_random_orders"
      [] p = 3 -> "remove_random_item"

\* faulty variant: the upper end of the draw is off by one
BatchSizesWide == randint(10, 21)

\* the size of a batch: range(random.randint(10, 20))
BatchSizes == randint(10, 20)

\* SpecAnyBatch: every size the script draws, and sizes up to MaxOver beyond
\* the cap, which only a changed range(...) would give
AnyBatchSizes == BatchSizes \cup ((max_workers + 1)..(max_workers + MaxOver))

\* a work item as executor.submit queues it: nothing has happened yet; the
\* list under construction and the work item both refer to the future
NewTask(f) ==
    [fn |-> f, st |-> "queued", runs |-> 0, head |-> 0, sent |-> 0, got |-> 0,
     text |-> 0, printed |-> 0, conn |-> "none", status |-> "none",
     fault |-> "none", refs |-> "both"]

\* the future is done: the callable returned or raised
Terminal(t) == t.st \in {"returned", "raised", "cancelled"}

\* started by a worker and not yet completed: the callable is connecting,
\* has its socket and has not sent, has sent the head of its request and
\* not the body, waits for the status line, blocks for ever in getresponse
\* or read, has the status line, has read the body and not yet printed, or
\* has written the text of its line and not the line end
InFlightTask(t) ==
    t.st \in {"connecting", "connected", "headed", "awaiting", "hung",
              "responded", "read", "printing"}

\* a stage a call passes through without waiting for the server
Transit(t) ==
    t.st \in {"connecting", "connected", "headed", "responded", "read",
              "printing"}

\* the callable has ended and the worker that ran it still holds its work
\* item, hence the future
Held(t) == Terminal(t) /\ t.refs \in {"both", "worker"}

\* the call waits for the server, with or without hope
Waiting(t) == t.st \in {"awaiting", "hung"}

\* the call was failed, answered non-2xx, or left hanging
Faulted(t) == t.fault # "none" \/ t.st = "hung" \/ t.status = "non2xx"

TaskSet == BagToSet(tasks)

\* how many task records of the bag lie in the set S of records
Count(S) == BagCardinality([x \in S |-> tasks[x]])

InFlight == Count({t \in TaskSet : InFlightTask(t)})

\* the invocations of the batch the main thread is working on
Batch == {t \in TaskSet : t.fn = FnOf(phase)}

\* request heads the invocations in the set S of records have put on the
\* wire, all told: what the server sees begin
RECURSIVE HeadsOf(_)
HeadsOf(S) ==
    IF S = {} THEN 0
    ELSE LET x == CHOOSE y \in S : TRUE
         IN x.head * CopiesIn(x, tasks) + HeadsOf(S \ {x})

\* requests the invocations in the set S of records have sent in full, all
\* told
RECURSIVE RequestsOf(_)
RequestsOf(S) ==
    IF S = {} THEN 0
    ELSE LET x == CHOOSE y \in S : TRUE
         IN x.sent * CopiesIn(x, tasks) + RequestsOf(S \ {x})

\* calls of the callable that workers have made for the records of S
RECURSIVE StartsOf(_)
StartsOf(S) ==
    IF S = {} THEN 0
    ELSE LET x == CHOOSE y \in S : TRUE
         IN x.runs * CopiesIn(x, tasks) + StartsOf(S \ {x})

Replace(t, u) == (tasks (-) SetToBag({t})) (+) SetToBag({u})

-----------------------------------------------------------------------------
(* How much the explored states hold at one time.                          *)

FewFaults == Count({t \in TaskSet : Faulted(t)}) <= MaxBad

FewHeld == Count({t \in TaskSet : Held(t)}) <= MaxHeld

\* Spec, SpecTotals: MaxBrief invocations queued or in a brief stage,
\* MaxWaiting waiting for the server, every other one of the batch completed
SlimBound ==
    /\ FewFaults
    /\ FewHeld
    /\ Count({t \in TaskSet : t.st = "queued" \/ Transit(t)}) <= MaxBrief
    /\ Count({t \in TaskSet : Waiting(t)}) <= MaxWaiting

\* SpecCrowd: any number queued and waiting for the server
CrowdBound ==
    /\ FewHeld
    /\ Count({t \in TaskSet : Transit(t)}) <= MaxTransit

\* SpecAnyBatch: any number waiting for the server
AnyBatchBound ==
    /\ FewHeld
    /\ Count({t \in TaskSet : Transit(t)}) <= MaxAbreast
    /\ Count({t \in TaskSet : t.st = "queued"}) <= MaxQueued

\* SpecLive, SpecFaults: the pool takes the invocations one after another,
\* the next when the worker has let go of the one before. The bound holds
\* back a submission and never a call.
BusyBound ==
    /\ FewFaults
    /\ Count({t \in TaskSet : ~Terminal(t) \/ Held(t)}) <= MaxBusy

\* SpecSiblings: MaxBrief invocations that have not sent their request,
\* MaxPending that have sent it and whose worker has not let go of them. A
\* call that has sent its request never waits for one that has not, so the
\* bound stops no call for good.
SiblingBound ==
    /\ FewFaults
    /\ Count({t \in TaskSet :
                 t.st \in {"queued", "connecting", "connected", "headed"}})
           <= MaxBrief
    /\ Count({t \in TaskSet :
                 \/ t.st \in {"awaiting", "hung", "responded", "read", "printing"}
                 \/ Held(t)})
           <= MaxPending

-----------------------------------------------------------------------------
(* Main thread: lines 43-54.                                               *)

Init ==
    /\ pc = "begin"
    /\ phase = 1
    /\ n = 0
    /\ submitted = 0
    /\ tasks = EmptyBag
    /\ total = 0
    /\ wire = [method |-> "none"]

\* range(random.randint(10, 20)) is evaluated once, before the first submit
BeginBatchOf(sizes) ==
    /\ pc = "begin"
    /\ \E k \in sizes : n' = k
    /\ submitted' = 0
    /\ pc' = "submit"
    /\ UNCHANGED <<phase, tasks, total, wire>>

BeginBatch == BeginBatchOf(BatchSizes)

\* faulty variant: a pass of the comprehension counts but queues nothing
SubmitOneDropped ==
    /\ pc = "submit"
    /\ submitted < n
    /\ submitted' = submitted + 1
    /\ UNCHANGED <<pc, phase, n, tasks, wire>>

\* one executor.submit(fn) of the comprehension: the work item is queued
SubmitOne ==
    /\ pc = "submit"
    /\ submitted < n
    /\ tasks' = tasks (+) SetToBag({NewTask(FnOf(phase))})
    /\ submitted' = submitted + 1
    /\ UNCHANGED <<pc, phase, n, wire>>

Submit == SubmitOne /\ UNCHANGED total

\* the comprehension is exhausted and its list is bound to futures; the
\* list of the batch before has lost its name and is about to be taken
\* apart
AssignFutures ==
    /\ pc = "submit"
    /\ submitted = n
    /\ pc' = "release"
    /\ UNCHANGED <<phase, n, submitted, tasks, total, wire>>

\* a future of an earlier batch that the old list still refers to
InOldList(t) == t.fn # FnOf(phase) /\ t.refs \in {"both", "list"}

\* the old list gives up one of its futures. A future that nothing else
\* refers to goes, with what its stored exception kept alive; one whose
\* worker has not yet deleted its work item lives on. Workers run between
\* two of these steps.
ReleaseOne ==
    /\ pc = "release"
    /\ \E t \in TaskSet :
           /\ InOldList(t)
           /\ tasks' = IF t.refs = "list"
                          THEN tasks (-) SetToBag({t})
                          ELSE Replace(t, [t EXCEPT !.refs = "worker"])
    /\ UNCHANGED <<pc, phase, n, submitted, total, wire>>

\* the old list is gone (the first batch has none) and
\* concurrent.futures.wait(futures) is called; futures of the old list that
\* a worker still refers to are alive across the call
CallWait ==
    /\ pc = "release"
    /\ \A t \in TaskSet : ~InOldList(t)
    /\ pc' = "wait"
    /\ UNCHANGED <<phase, n, submitted, tasks, total, wire>>

\* faulty variant: wait(futures, return_when=FIRST_COMPLETED)
WaitReadyFirst == \E t \in BagToSet(tasks) : t.fn = FnOf(phase) /\ Terminal(t)

\* faulty variant: wait(futures, timeout=...) gives up on a call that does not answer
WaitReadyTimeout ==
    \A t \in BagToSet(tasks) : t.fn = FnOf(phase) => (Terminal(t) \/ t.st = "hung")

\* concurrent.futures.wait(futures): ALL_COMPLETED, no timeout
WaitReady == \A t \in TaskSet : t.fn = FnOf(phase) => Terminal(t)

\* faulty variant: the wait on the batch is left out
WaitNoBlock ==
    /\ pc = "wait"
    /\ IF phase < 3
         THEN phase' = phase + 1 /\ pc' = "begin"
         ELSE phase' = phase /\ pc' = "shutdown"
    /\ UNCHANGED <<n, submitted, tasks, total, wire>>

\* faulty variant: the futures' results are fetched after the wait, so a
\* stored exception is raised in the main thread and ends the process
WaitReraises ==
    /\ pc = "wait"
    /\ WaitReady
    /\ IF \E t \in TaskSet : t.st = "raised"
         THEN phase' = phase /\ pc' = "crashed"
         ELSE IF phase < 3
                THEN phase' = phase + 1 /\ pc' = "begin"
                ELSE phase' = phase /\ pc' = "shutdown"
    /\ UNCHANGED <<n, submitted, tasks, total, wire>>

\* wait returns once every future of the list is done; the list stays bound
\* to futures, so the finished futures stay
Wait ==
    /\ pc = "wait"
    /\ WaitReady
    /\ IF phase < 3
         THEN phase' = phase + 1 /\ pc' = "begin"
         ELSE phase' = phase /\ pc' = "shutdown"
    /\ UNCHANGED <<n, submitted, tasks, total, wire>>

\* leaving the with block: executor.shutdown(wait=True) joins the worker
\* threads, which end with their work items deleted; futures still names
\* the third list
Shutdown ==
    /\ pc = "shutdown"
    /\ \A t \in TaskSet : Terminal(t) /\ ~Held(t)
    /\ pc' = "done"
    /\ UNCHANGED <<phase, n, submitted, tasks, total, wire>>

-----------------------------------------------------------------------------
(* Workers: one invocation of a callable, lines 6-15 and 17-40. Each step  *)
(* below is one blocking call of the callable or one system call inside    *)
(* it (the connect and each send inside connection.request, each write     *)
(* inside print), or the worker letting go of its work item; other threads *)
(* run between the steps.                                                  *)

\* workers that are not free: they run a callable, or hold the work item of
\* one that has ended
Occupied == InFlight + Count({t \in TaskSet : Held(t)})

\* faulty variant: the cap is compared with <= instead of <
WorkerFreeOffByOne == Occupied <= max_workers

\* a worker is free to take a queued work item
WorkerFree == Occupied < max_workers

\* A worker takes t from the queue and calls it: the future is running, the
\* parameters are drawn, send_request builds the connection object and
\* connection.request begins to connect. Nothing is sent yet and there is
\* no socket.
StartCall(t) ==
    /\ t.st = "queued"
    /\ WorkerFree
    /\ tasks' = Replace(t, [t EXCEPT !.st = "connecting", !.runs = @ + 1])
    /\ UNCHANGED <<pc, phase, n, submitted, total, wire>>

\* inside connection.request: the connection is made; the socket is open
\* and nothing has been sent on it
Connect(t) ==
    /\ t.st = "connecting"
    /\ tasks' = Replace(t, [t EXCEPT !.st = "connected", !.conn = "open"])
    /\ UNCHANGED <<pc, phase, n, submitted, total, wire>>

\* connection.request raises in the connect (connection refused, or the
\* connect timed out in the kernel): nothing was sent, no socket is left,
\* the exception is stored in the future.
ConnectFails(t) ==
    /\ t.st = "connecting"
    /\ tasks' = Replace(t, [t EXCEPT !.st = "raised", !.fault = "connect"])
    /\ UNCHANGED <<pc, phase, n, submitted, total, wire>>

\* inside connection.request of a request with a body (line 13 with the
\* body of lines 10-11, which only add_random_order passes): the request
\* line and the headers are sent on the open socket; the body is not
SendHead(t) ==
    /\ t.st = "connected"
    /\ t.fn = "add_random_order"
    /\ tasks' = Replace(t, [t EXCEPT !.st = "headed", !.head = @ + 1])
    /\ UNCHANGED <<pc, phase, n, submitted, total, wire>>

\* inside connection.request: the body follows the head by a send of its
\* own; the request is out and connection.request returns
SendBody(t) ==
    /\ t.st = "headed"
    /\ tasks' = Replace(t, [t EXCEPT !.st = "awaiting", !.sent = @ + 1])
    /\ UNCHANGED <<pc, phase, n, submitted, total, wire>>

\* inside connection.request of a request without a body (GET, DELETE):
\* the whole request is sent by one send, and connection.request returns
Send(t) ==
    /\ t.st = "connected"
    /\ t.fn # "add_random_order"
    /\ tasks' = Replace(t, [t EXCEPT !.st = "awaiting", !.head = @ + 1,
                                     !.sent = @ + 1])
    /\ UNCHANGED <<pc, phase, n, submitted, total, wire>>

\* connection.request raises in its first send, after the connection was
\* made (the peer reset it): nothing of the request went out, and nothing
\* closes the socket, which the stored exception keeps alive.
SendFails(t) ==
    /\ t.st = "connected"
    /\ tasks' = Replace(t, [t EXCEPT !.st = "raised", !.fault = "send"])
    /\ UNCHANGED <<pc, phase, n, submitted, total, wire>>

\* connection.request raises in the send of the body: the head of the
\* request is with the server, which may act on it, the request as a whole
\* did not go out, and nothing closes the socket.
SendBodyFails(t) ==
    /\ t.st = "headed"
    /\ tasks' = Replace(t, [t EXCEPT !.st = "raised", !.fault = "send"])
    /\ UNCHANGED <<pc, phase, n, submitted, total, wire>>

\* faulty variant: a non-2xx status is turned into an exception (raise_for_status)
GetResponseChecked(t, status) ==
    /\ t.st = "awaiting"
    /\ tasks' = Replace(t, [t EXCEPT !.st = IF status = "2xx" THEN "responded"
                                            ELSE "raised",
                                     !.status = status])
    /\ UNCHANGED <<pc, phase, n, submitted, total, wire>>

\* connection.getresponse() returns: the status line and the headers have
\* arrived, the body has not been read
GetResponse(t, status) ==
    /\ t.st = "awaiting"
    /\ tasks' = Replace(t, [t EXCEPT !.st = "responded", !.status = status])
    /\ UNCHANGED <<pc, phase, n, submitted, total, wire>>

GetResponse2xx(t) == GetResponse(t, "2xx")

GetResponseNon2xx(t) == GetResponse(t, "non2xx")

\* faulty variant: a lost response puts the call back in the queue (a retry)
ResponseLostRetry(t) ==
    /\ t.st = "awaiting"
    /\ tasks' = Replace(t, [t EXCEPT !.st = "queued", !.conn = "closed"])
    /\ UNCHANGED <<pc, phase, n, submitted, total, wire>>

\* the server drops the connection (RemoteDisconnected in getresponse):
\* http.client closes the socket and raises; nothing is printed.
ResponseLost(t) ==
    /\ t.st = "awaiting"
    /\ tasks' = Replace(t, [t EXCEPT !.st = "raised", !.conn = "closed",
                                     !.fault = "disconnected"])
    /\ UNCHANGED <<pc, phase, n, submitted, total, wire>>

\* the server answers with a malformed status line (BadStatusLine in
\* getresponse): send_request never closes the connection, and the stored
\* exception keeps its frame, hence the socket, alive.
ResponseMalformed(t) ==
    /\ t.st = "awaiting"
    /\ tasks' = Replace(t, [t EXCEPT !.st = "raised", !.fault = "badstatus"])
    /\ UNCHANGED <<pc, phase, n, submitted, total, wire>>

\* the server never answers: no timeout is set, getresponse blocks forever
Hang(t) ==
    /\ t.st = "awaiting"
    /\ tasks' = Replace(t, [t EXCEPT !.st = "hung"])
    /\ UNCHANGED <<pc, phase, n, submitted, total, wire>>

\* response.read() returns the body, read to its end, which releases the
\* socket
Read(t) ==
    /\ t.st = "responded"
    /\ tasks' = Replace(t, [t EXCEPT !.st = "read", !.got = @ + 1,
                                     !.conn = "closed"])
    /\ UNCHANGED <<pc, phase, n, submitted, total, wire>>

\* response.read() raises and leaves the connection as left says; nothing
\* is printed, the exception is stored in the future.
ReadFails(t, left) ==
    /\ t.st = "responded"
    /\ tasks' = Replace(t, [t EXCEPT !.st = "raised", !.conn = left,
                                     !.fault = "read"])
    /\ UNCHANGED <<pc, phase, n, submitted, total, wire>>

\* a body with a Content-Length is cut short by the end of the stream
\* (IncompleteRead): http.client closes the socket before it raises
ReadIncomplete(t) == ReadFails(t, "closed")

\* a chunked body is cut short (IncompleteRead) or the connection is reset
\* inside the body (ConnectionResetError): read raises with the socket open
\* and nothing closes it
ReadBroken(t) == ReadFails(t, "open")

\* the server stops inside the body: no timeout is set, response.read()
\* blocks forever with the status line known and the socket open
Stall(t) ==
    /\ t.st = "responded"
    /\ tasks' = Replace(t, [t EXCEPT !.st = "hung"])
    /\ UNCHANGED <<pc, phase, n, submitted, total, wire>>

\* the body is decoded and print writes the text of the line to stdout;
\* the line end is a write of its own, and other invocations write between
\* the two
PrintText(t) ==
    /\ t.st = "read"
    /\ tasks' = Replace(t, [t EXCEPT !.st = "printing", !.text = @ + 1])
    /\ UNCHANGED <<pc, phase, n, submitted, total, wire>>

\* faulty variant: the line is never ended (print(..., end=""))
PrintLineSkipped(t) ==
    /\ t.st = "printing"
    /\ tasks' = Replace(t, [t EXCEPT !.st = "returned"])
    /\ UNCHANGED <<pc, phase, n, submitted, total, wire>>

\* print writes the line end: the one line of the invocation is out, and
\* the callable returns
PrintLine(t) ==
    /\ t.st = "printing"
    /\ tasks' = Replace(t, [t EXCEPT !.st = "returned", !.printed = @ + 1])
    /\ UNCHANGED <<pc, phase, n, submitted, total, wire>>

\* the body is not UTF-8 (UnicodeDecodeError in decode) or stdout cannot
\* encode it (UnicodeEncodeError in print): the response was read, nothing
\* is printed, the exception is stored in the future.
PrintLineFails(t) ==
    /\ t.st = "read"
    /\ tasks' = Replace(t, [t EXCEPT !.st = "raised", !.fault = "decode"])
    /\ UNCHANGED <<pc, phase, n, submitted, total, wire>>

\* the worker whose callable has ended deletes its work item, at whatever
\* point the main thread has reached: a future that the list of its batch
\* still holds stays, one that the main thread has let go of meanwhile is
\* freed here. The worker is free for the next work item.
DelWorkItem(t) ==
    /\ Held(t)
    /\ tasks' = IF t.refs = "worker"
                   THEN tasks (-) SetToBag({t})
                   ELSE Replace(t, [t EXCEPT !.refs = "list"])
    /\ UNCHANGED <<pc, phase, n, submitted, total, wire>>
Next ==
    \/ BeginBatch /\ SlimBound'
    \/ Submit /\ SlimBound'
    \/ AssignFutures /\ SlimBound'
    \/ ReleaseOne /\ SlimBound'
    \/ CallWait /\ SlimBound'
    \/ Wait /\ SlimBound'
    \/ Shutdown /\ SlimBound'
    \/ \E t \in TaskSet : StartCall(t) /\ SlimBound'
    \/ \E t \in TaskSet : Connect(t) /\ SlimBound'
    \/ \E t \in TaskSet : ConnectFails(t) /\ SlimBound'
    \/ \E t \in TaskSet : SendHead(t) /\ SlimBound'
    \/ \E t \in TaskSet : SendBody(t) /\ SlimBound'
    \/ \E t \in TaskSet : Send(t) /\ SlimBound'
    \/ \E t \in TaskSet : SendFails(t) /\ SlimBound'
    \/ \E t \in TaskSet : SendBodyFails(t) /\ SlimBound'
    \/ \E t \in TaskSet : GetResponse2xx(t) /\ SlimBound'
    \/ \E t \in TaskSet : GetResponseNon2xx(t) /\ SlimBound'
    \/ \E t \in TaskSet : ResponseLost(t) /\ SlimBound'
    \/ \E t \in TaskSet : ResponseMalformed(t) /\ SlimBound'
    \/ \E t \in TaskSet : Hang(t) /\ SlimBound'
    \/ \E t \in TaskSet : Read(t) /\ SlimBound'
    \/ \E t \in TaskSet : ReadIncomplete(t) /\ SlimBound'
    \/ \E t \in TaskSet : ReadBroken(t) /\ SlimBound'
    \/ \E t \in TaskSet : Stall(t) /\ SlimBound'
    \/ \E t \in TaskSet : PrintText(t) /\ SlimBound'
    \/ \E t \in TaskSet : PrintLine(t) /\ SlimBound'
    \/ \E t \in TaskSet : PrintLineFails(t) /\ SlimBound'
    \/ \E t \in TaskSet : DelWorkItem(t) /\ SlimBound'

Spec == Init /\ [][Next]_vars

-----------------------------------------------------------------------------
(* Request construction: send_request and the three callables, taken one   *)
(* invocation at a time (SpecReq).                                         *)

\* Python values that reach the wire
None == [py |-> "None"]

Str(s) == [py |-> "str", s |-> s]

\* order_data = {"items": [item], "table_id": table_number}
order_data(item, table_number) ==
    [py |-> "dict", items |-> <<item>>, table_id |-> table_number]

\* Python truth of a body: None is false, a dict with keys is true
Truthy(body) == body.py # "None"

RECURSIVE json_list(_)
json_list(xs) ==
    IF xs = <<>> THEN ""
    ELSE ToString(Head(xs))
         \o (IF Tail(xs) = <<>> THEN "" ELSE ", " \o json_list(Tail(xs)))

\* json.dumps of an order dict, with json's default separators
json_dumps(d) ==
    Str("{\"items\": [" \o json_list(d.items) \o "], \"table_id\": "
        \o ToString(d.table_id) \o "}")

\* send_request(method, path, body=None): what connection.request is given
send_request(method, path, body) ==
    [method  |-> method,
     path    |-> path,
     body    |-> IF Truthy(body) THEN json_dumps(body) ELSE body,
     headers |-> [Content_type |-> "application/json"]]

\* faulty variant: the two ranges are swapped
add_random_order_swapped ==
    \E item \in randint(1, 20), table_number \in randint(1, 21) :
        wire' = send_request("POST", "/orders", order_data(item, table_number))

add_random_order ==
    \E item \in randint(1, 21), table_number \in randint(1, 20) :
        wire' = send_request("POST", "/orders", order_data(item, table_number))

query_random_orders ==
    \E table_number \in randint(1, 99) :
        wire' = send_request("GET", "/orders/" \o ToString(table_number), None)

\* faulty variant: the two identifiers are put in the path in the wrong order
remove_random_item_swapped ==
    \E table_number \in randint(1, 99), item \in randint(1, 21) :
        wire' = send_request("DELETE",
                             "/orders/" \o ToString(item) \o "/"
                                 \o ToString(table_number),
                             None)

remove_random_item ==
    \E table_number \in randint(1, 99), item \in randint(1, 21) :
        wire' = send_request("DELETE",
                             "/orders/" \o ToString(table_number) \o "/"
                                 \o ToString(item),
                             None)

\* nothing has been put on the wire yet
NoRequest == [method |-> "none"]

InitReq == Init

InvokeAdd == wire = NoRequest /\ add_random_order /\ UNCHANGED poolVars

InvokeQuery == wire = NoRequest /\ query_random_orders /\ UNCHANGED poolVars

InvokeRemove == wire = NoRequest /\ remove_random_item /\ UNCHANGED poolVars

NextReq == InvokeAdd \/ InvokeQuery \/ InvokeRemove

SpecReq == InitReq /\ [][NextReq]_vars

-----------------------------------------------------------------------------
(* The script against a server that answers every call in full with a 2xx  *)
(* response, with any number of calls queued and waiting for their answer. *)

NextCrowd ==
    \/ BeginBatch /\ CrowdBound'
    \/ Submit /\ CrowdBound'
    \/ AssignFutures /\ CrowdBound'
    \/ ReleaseOne /\ CrowdBound'
    \/ CallWait /\ CrowdBound'
    \/ Wait /\ CrowdBound'
    \/ Shutdown /\ CrowdBound'
    \/ \E t \in TaskSet : StartCall(t) /\ CrowdBound'
    \/ \E t \in TaskSet : Connect(t) /\ CrowdBound'
    \/ \E t \in TaskSet : SendHead(t) /\ CrowdBound'
    \/ \E t \in TaskSet : SendBody(t) /\ CrowdBound'
    \/ \E t \in TaskSet : Send(t) /\ CrowdBound'
    \/ \E t \in TaskSet : GetResponse2xx(t) /\ CrowdBound'
    \/ \E t \in TaskSet : Read(t) /\ CrowdBound'
    \/ \E t \in TaskSet : PrintText(t) /\ CrowdBound'
    \/ \E t \in TaskSet : PrintLine(t) /\ CrowdBound'
    \/ \E t \in TaskSet : DelWorkItem(t) /\ CrowdBound'

SpecCrowd == Init /\ [][NextCrowd]_vars

-----------------------------------------------------------------------------
(* The same program with the history of its submissions recorded, run      *)
(* against a server that answers every call in full, 2xx or non-2xx, with  *)
(* a body that can be printed.                                             *)

SubmitCounted == SubmitOne /\ total' = total + 1

NextTotals ==
    \/ BeginBatch /\ SlimBound'
    \/ SubmitCounted /\ SlimBound'
    \/ AssignFutures /\ SlimBound'
    \/ ReleaseOne /\ SlimBound'
    \/ CallWait /\ SlimBound'
    \/ Wait /\ SlimBound'
    \/ Shutdown /\ SlimBound'
    \/ \E t \in TaskSet : StartCall(t) /\ SlimBound'
    \/ \E t \in TaskSet : Connect(t) /\ SlimBound'
    \/ \E t \in TaskSet : SendHead(t) /\ SlimBound'
    \/ \E t \in TaskSet : SendBody(t) /\ SlimBound'
    \/ \E t \in TaskSet : Send(t) /\ SlimBound'
    \/ \E t \in TaskSet : GetResponse2xx(t) /\ SlimBound'
    \/ \E t \in TaskSet : GetResponseNon2xx(t) /\ SlimBound'
    \/ \E t \in TaskSet : Read(t) /\ SlimBound'
    \/ \E t \in TaskSet : PrintText(t) /\ SlimBound'
    \/ \E t \in TaskSet : PrintLine(t) /\ SlimBound'
    \/ \E t \in TaskSet : DelWorkItem(t) /\ SlimBound'

SpecTotals == Init /\ [][NextTotals]_vars

-----------------------------------------------------------------------------
(* The pool under the sizes the script draws and under sizes beyond its    *)
(* cap, which the script as it is cannot draw: every run of the script     *)
(* against a server that answers every call 2xx is a run of this           *)
(* specification, and the cap is tried where it binds.                     *)

BeginAnyBatch == BeginBatchOf(AnyBatchSizes)

NextAnyBatch ==
    \/ BeginAnyBatch /\ AnyBatchBound'
    \/ Submit /\ AnyBatchBound'
    \/ AssignFutures /\ AnyBatchBound'
    \/ ReleaseOne /\ AnyBatchBound'
    \/ CallWait /\ AnyBatchBound'
    \/ Wait /\ AnyBatchBound'
    \/ Shutdown /\ AnyBatchBound'
    \/ \E t \in TaskSet : StartCall(t) /\ AnyBatchBound'
    \/ \E t \in TaskSet : Connect(t) /\ AnyBatchBound'
    \/ \E t \in TaskSet : SendHead(t) /\ AnyBatchBound'
    \/ \E t \in TaskSet : SendBody(t) /\ AnyBatchBound'
    \/ \E t \in TaskSet : Send(t) /\ AnyBatchBound'
    \/ \E t \in TaskSet : GetResponse2xx(t) /\ AnyBatchBound'
    \/ \E t \in TaskSet : Read(t) /\ AnyBatchBound'
    \/ \E t \in TaskSet : PrintText(t) /\ AnyBatchBound'
    \/ \E t \in TaskSet : PrintLine(t) /\ AnyBatchBound'
    \/ \E t \in TaskSet : DelWorkItem(t) /\ AnyBatchBound'

SpecAnyBatch == Init /\ [][NextAnyBatch]_vars

-----------------------------------------------------------------------------
(* Liveness: threads that can run do run. The fair script against a server *)
(* and a network that treat a call in every way the workers' steps above   *)
(* describe, a call that is never answered and a body that never ends      *)
(* among them.                                                             *)

NextLive ==
    \/ BeginBatch /\ BusyBound'
    \/ Submit /\ BusyBound'
    \/ AssignFutures /\ BusyBound'
    \/ ReleaseOne /\ BusyBound'
    \/ CallWait /\ BusyBound'
    \/ Wait /\ BusyBound'
    \/ Shutdown /\ BusyBound'
    \/ \E t \in TaskSet : StartCall(t) /\ BusyBound'
    \/ \E t \in TaskSet : Connect(t) /\ BusyBound'
    \/ \E t \in TaskSet : ConnectFails(t) /\ BusyBound'
    \/ \E t \in TaskSet : SendHead(t) /\ BusyBound'
    \/ \E t \in TaskSet : SendBody(t) /\ BusyBound'
    \/ \E t \in TaskSet : Send(t) /\ BusyBound'
    \/ \E t \in TaskSet : SendFails(t) /\ BusyBound'
    \/ \E t \in TaskSet : SendBodyFails(t) /\ BusyBound'
    \/ \E t \in TaskSet : GetResponse2xx(t) /\ BusyBound'
    \/ \E t \in TaskSet : GetResponseNon2xx(t) /\ BusyBound'
    \/ \E t \in TaskSet : ResponseLost(t) /\ BusyBound'
    \/ \E t \in TaskSet : ResponseMalformed(t) /\ BusyBound'
    \/ \E t \in TaskSet : Hang(t) /\ BusyBound'
    \/ \E t \in TaskSet : Read(t) /\ BusyBound'
    \/ \E t \in TaskSet : ReadIncomplete(t) /\ BusyBound'
    \/ \E t \in TaskSet : ReadBroken(t) /\ BusyBound'
    \/ \E t \in TaskSet : Stall(t) /\ BusyBound'
    \/ \E t \in TaskSet : PrintText(t) /\ BusyBound'
    \/ \E t \in TaskSet : PrintLine(t) /\ BusyBound'
    \/ \E t \in TaskSet : PrintLineFails(t) /\ BusyBound'
    \/ \E t \in TaskSet : DelWorkItem(t) /\ BusyBound'

SpecLive == Init /\ [][NextLive]_vars /\ WF_vars(NextLive)

-----------------------------------------------------------------------------
(* The fair script against a server that answers 2xx when it answers and   *)
(* a network under which every call ends: a call returns or raises in any  *)
(* of the ways the workers' steps above describe, and none blocks for      *)
(* ever.                                                                   *)

NextFaults ==
    \/ BeginBatch /\ BusyBound'
    \/ Submit /\ BusyBound'
    \/ AssignFutures /\ BusyBound'
    \/ ReleaseOne /\ BusyBound'
    \/ CallWait /\ BusyBound'
    \/ Wait /\ BusyBound'
    \/ Shutdown /\ BusyBound'
    \/ \E t \in TaskSet : StartCall(t) /\ BusyBound'
    \/ \E t \in TaskSet : Connect(t) /\ BusyBound'
    \/ \E t \in TaskSet : ConnectFails(t) /\ BusyBound'
    \/ \E t \in TaskSet : SendHead(t) /\ BusyBound'
    \/ \E t \in TaskSet : SendBody(t) /\ BusyBound'
    \/ \E t \in TaskSet : Send(t) /\ BusyBound'
    \/ \E t \in TaskSet : SendFails(t) /\ BusyBound'
    \/ \E t \in TaskSet : SendBodyFails(t) /\ BusyBound'
    \/ \E t \in TaskSet : GetResponse2xx(t) /\ BusyBound'
    \/ \E t \in TaskSet : ResponseLost(t) /\ BusyBound'
    \/ \E t \in TaskSet : ResponseMalformed(t) /\ BusyBound'
    \/ \E t \in TaskSet : Read(t) /\ BusyBound'
    \/ \E t \in TaskSet : ReadIncomplete(t) /\ BusyBound'
    \/ \E t \in TaskSet : ReadBroken(t) /\ BusyBound'
    \/ \E t \in TaskSet : PrintText(t) /\ BusyBound'
    \/ \E t \in TaskSet : PrintLine(t) /\ BusyBound'
    \/ \E t \in TaskSet : PrintLineFails(t) /\ BusyBound'
    \/ \E t \in TaskSet : DelWorkItem(t) /\ BusyBound'

SpecFaults == Init /\ [][NextFaults]_vars /\ WF_vars(NextFaults)

-----------------------------------------------------------------------------
(* The fair script with two calls under way at a time, against a server    *)
(* that answers 2xx or non-2xx and a network that fails a connection at    *)
(* any of three uses: the connect is refused, the send of a body is reset  *)
(* with the head of the request out, or the connection is dropped before   *)
(* the response.                                                           *)

NextSiblings ==
    \/ BeginBatch /\ SiblingBound'
    \/ Submit /\ SiblingBound'
    \/ AssignFutures /\ SiblingBound'
    \/ ReleaseOne /\ SiblingBound'
    \/ CallWait /\ SiblingBound'
    \/ Wait /\ SiblingBound'
    \/ Shutdown /\ SiblingBound'
    \/ \E t \in TaskSet : StartCall(t) /\ SiblingBound'
    \/ \E t \in TaskSet : Connect(t) /\ SiblingBound'
    \/ \E t \in TaskSet : ConnectFails(t) /\ SiblingBound'
    \/ \E t \in TaskSet : SendHead(t) /\ SiblingBound'
    \/ \E t \in TaskSet : SendBody(t) /\ SiblingBound'
    \/ \E t \in TaskSet : Send(t) /\ SiblingBound'
    \/ \E t \in TaskSet : SendBodyFails(t) /\ SiblingBound'
    \/ \E t \in TaskSet : GetResponse2xx(t) /\ SiblingBound'
    \/ \E t \in TaskSet : GetResponseNon2xx(t) /\ SiblingBound'
    \/ \E t \in TaskSet : ResponseLost(t) /\ SiblingBound'
    \/ \E t \in TaskSet : Read(t) /\ SiblingBound'
    \/ \E t \in TaskSet : PrintText(t) /\ SiblingBound'
    \/ \E t \in TaskSet : PrintLine(t) /\ SiblingBound'
    \/ \E t \in TaskSet : DelWorkItem(t) /\ SiblingBound'

SpecSiblings == Init /\ [][NextSiblings]_vars /\ WF_vars(NextSiblings)

-----------------------------------------------------------------------------
(* Properties.                                                             *)

\* C1 (phase barrier): whenever the main thread leaves the wait on a batch,
\* every one of the n invocations submitted in that batch has completed,
\* by returning or by raising.
PhaseBarrier ==
    [][(pc = "wait" /\ pc' # "wait") =>
           /\ submitted = n
           /\ Count({t \in TaskSet : t.fn = FnOf(phase)
                               /\ t.st \in {"returned", "raised"}}) = n]_vars

\* the add batch has been waited for: one of its invocations raised, all the
\* others returned, and the query batch has not begun
PhaseBarrierWitness ==
    /\ pc = "begin" /\ phase = 2
    /\ Count({t \in TaskSet : t.fn = "add_random_order" /\ t.st = "raised"}) = 1
    /\ Count({t \in TaskSet : t.fn = "add_random_order"
                              /\ t.st = "returned"}) = n - 1

\* C2 (phase ordering): every invocation that is queued or in flight is an
\* invocation of the current phase's callable, so nothing of a later phase
\* is submitted or started while an earlier phase has work left, and two
\* phases are never in flight together.
PhaseOrdering ==
    /\ \A t \in TaskSet : ~Terminal(t) => t.fn = FnOf(phase)
    /\ \A t, u \in TaskSet :
           (InFlightTask(t) /\ InFlightTask(u)) => t.fn = u.fn

\* remove calls queued, waiting for their answer and reading it, all at
\* one time, while a worker still holds the work item of a call of the
\* finished query batch, whose list is gone
PhaseOrderingWitness ==
    /\ phase = 3
    /\ Count({t \in Batch : t.st = "queued"}) >= 2
    /\ Count({t \in Batch : t.st = "awaiting"}) >= 2
    /\ Count({t \in Batch : t.st = "responded"}) = 1
    /\ \E v \in TaskSet :
           v.fn = "query_random_orders" /\ v.st = "returned" /\ v.refs = "worker"

\* C3 (concurrency bound): at most 20 invocations are in flight, whatever
\* the batch sizes (SpecAnyBatch draws them up to beyond the cap).
ConcurrencyBound == InFlight <= 20

\* the cap binds: 20 in flight, two of them with a socket and nothing sent,
\* and one more queued behind them
ConcurrencyBoundWitness ==
    /\ InFlight = 20
    /\ Count({t \in TaskSet : t.st = "connected"}) = 2
    /\ \E t \in TaskSet : t.st = "queued"

\* C4 (failure isolation): no invocation is ever cancelled, dropped or run
\* more than once, whether or not a sibling has failed: the batch keeps all
\* its submitted invocations and each started one has been run exactly
\* once; the phase changes only out of the wait on a batch whose n
\* invocations have all completed, each run once; and from any state in
\* which an invocation of the batch has raised or was answered non-2xx, the
\* run goes on to a batch waited for with all its invocations completed,
\* which, the phase changing no other way, is first of all the batch of
\* that invocation.
FailureIsolation ==
    /\ [](/\ \A t \in TaskSet :
                /\ t.st # "cancelled"
                /\ t.runs <= 1
                /\ (t.st # "queued" => t.runs = 1)
          /\ Count(Batch) = (IF pc = "begin" THEN 0 ELSE submitted))
    /\ [][phase' # phase =>
              /\ pc = "wait"
              /\ Count({t \in Batch : t.st \in {"returned", "raised"}
                                      /\ t.runs = 1}) = n]_vars
    /\ (\E t \in Batch : t.st = "raised" \/ t.status = "non2xx")
           ~> (/\ pc \in {"wait", "shutdown", "done"}
               /\ Count({t \in Batch : t.st \in {"returned", "raised"}
                                       /\ t.runs = 1}) = n)

\* an invocation has raised while a sibling of its batch is under way
FailureIsolationWitness ==
    /\ pc \in {"submit", "release", "wait"}
    /\ \E t, u \in Batch : t.st = "raised" /\ t.runs = 1 /\ ~Terminal(u)

ConnectionLifecycle ==
    \A t \in TaskSet :
        /\ t.st \in {"awaiting", "hung", "responded"} =>
               (t.conn = "open" /\ t.sent = 1)
        /\ Terminal(t) => t.conn # "open"

\* C7 (batch size): the size of every batch is an integer of [10, 20], the
\* batch that is waited for has exactly that many invocations, and a run
\* that has ended has submitted between 30 and 60 invocations.
BatchSize ==
    /\ pc \in {"submit", "release", "wait"} => (n \in 10..20 /\ submitted <= n)
    /\ pc \in {"release", "wait"} => (submitted = n /\ Count(Batch) = n)
    /\ total <= 20 * phase
    /\ pc \in {"shutdown", "done"} => total \in 30..60

\* a finished run whose three sizes cannot all be equal
BatchSizeWitness == pc = "done" /\ total = 31

\* C8 (termination and stall): unless a call blocks for ever, in
\* getresponse or in read, the script ends, and it ends only after its
\* three phases, the third batch completed; once a call blocks for ever it
\* stays so, the wait on its batch is never left, and the phase never
\* changes, so nothing of a later phase is submitted or started.
TerminationAndStall ==
    /\ <>(pc = "done" \/ \E t \in TaskSet : t.st = "hung")
    /\ [](pc = "done" =>
              /\ phase = 3
              /\ \A t \in TaskSet : Terminal(t)
              /\ Count(Batch) = n)
    /\ [][(\E t \in TaskSet : t.st = "hung") =>
              /\ \E t \in BagToSet(tasks') : t.st = "hung"
              /\ phase' = phase
              /\ pc' \in {"submit", "release", "wait"}
              /\ \A t \in BagToSet(tasks') : ~Terminal(t) => t.fn = FnOf(phase)]_vars

\* the query batch is stalled in its wait: all its calls are over but one,
\* whose body never ends
TerminationAndStallWitness ==
    /\ pc = "wait" /\ phase = 2
    /\ Count({t \in TaskSet : t.st = "hung" /\ t.status = "2xx"}) = 1
    /\ Count({t \in TaskSet : Terminal(t)}) = n - 1

\* C9 (non-2xx is no fault): the status never decides what an invocation
\* does. An invocation that got a non-2xx response goes the way of a 2xx
\* one: it holds its connection until the read, once the body is read it
\* can write the text of its line and then the line end, and when it has
\* returned it is, but for the status, what a 2xx leaves: run once, one
\* request, one response read, one line written, connection closed. If it
\* raised, it raised in the read or after it, as a 2xx call does on the
\* same body, never in the step that learned the status.
Non2xxReturns ==
    /\ [](\A t \in TaskSet :
             t.status = "non2xx" =>
                 /\ t.st \in {"responded", "hung", "read", "printing",
                             "returned", "raised"}
                 /\ t.runs = 1 /\ t.sent = 1
                 /\ t.st \in {"responded", "hung"} =>
                        (t.got = 0 /\ t.conn = "open")
                 /\ t.st = "responded" => ENABLED Read(t)
                 /\ t.st = "read" =>
                        (t.got = 1 /\ t.conn = "closed" /\ ENABLED PrintText(t))
                 /\ t.st = "printing" =>
                        (t.got = 1 /\ t.text = 1 /\ ENABLED PrintLine(t))
                 /\ t.st = "returned" =>
                        (t.got = 1 /\ t.text = 1 /\ t.printed = 1
                         /\ t.conn = "closed" /\ t.fault = "none")
                 /\ t.st = "raised" =>
                        (t.text = 0 /\ t.printed = 0
                         /\ t.fault \in {"read", "decode"}))
    /\ [][\A u \in BagToSet(tasks') :
              (/\ u.status = "non2xx" /\ u.st = "raised" /\ u.refs = "both"
               /\ CopiesIn(u, tasks') > CopiesIn(u, tasks))
                  => \E t \in TaskSet :
                         t.status = "non2xx" /\ t.st \in {"responded", "read"}]_vars

\* a remove call answered non-2xx (the 404 on DELETE) has returned with its
\* line printed, next to a 2xx sibling
Non2xxReturnsWitness ==
    \E t, u \in TaskSet :
        /\ t.fn = "remove_random_item" /\ t.status = "non2xx"
        /\ t.st = "returned" /\ t.printed = 1
        /\ u.fn = "remove_random_item" /\ u.status = "2xx"

\* C10 (add-order request): a POST goes to /orders with a JSON body of one
\* item identifier of [1, 21] and a table_id of [1, 20].
AddOrderRequest ==
    wire.method = "POST" =>
        /\ wire.path = "/orders"
        /\ \E i \in 1..21, tb \in 1..20 :
               wire.body = [py |-> "str",
                            s  |-> "{\"items\": [" \o ToString(i)
                                   \o "], \"table_id\": " \o ToString(tb) \o "}"]

\* the add-order request with both parameters at the top of their ranges
AddOrderRequestWitness ==
    /\ wire.method = "POST"
    /\ wire.body = [py |-> "str", s |-> "{\"items\": [21], \"table_id\": 20}"]

\* C11 (query and remove requests): a GET goes to /orders/{t} with t of
\* [1, 99], a DELETE goes to /orders/{t}/{i} with t of [1, 99] and i of
\* [1, 21], and neither carries a body.
QueryRemoveRequest ==
    /\ wire.method = "GET" =>
           /\ \E tb \in 1..99 : wire.path = "/orders/" \o ToString(tb)
           /\ wire.body = [py |-> "None"]
    /\ wire.method = "DELETE" =>
           /\ \E tb \in 1..99, i \in 1..21 :
                  wire.path = "/orders/" \o ToString(tb) \o "/" \o ToString(i)
           /\ wire.body = [py |-> "None"]

\* the remove request with both parameters at the top of their ranges
QueryRemoveRequestWitness ==
    /\ wire.method = "DELETE"
    /\ wire.path = "/orders/99/21"
    /\ wire.body = [py |-> "None"]


\* C12 (faults stay in the pool): an invocation that raises never takes
\* the main thread off its course: the step in which an invocation raises
\* changes nothing of the main thread, a drained batch lets the wait return
\* even when it holds a raised invocation, the wait returns into the next
\* phase with the n invocations of the batch completed, and from any state
\* in which an invocation has raised the run goes on to its end, which
\* comes after the third batch has run in full.
FaultsCaptured ==
    /\ [][(\E u \in BagToSet(tasks') :
               /\ u.st = "raised" /\ u.refs = "both"
               /\ CopiesIn(u, tasks') > CopiesIn(u, tasks))
              => UNCHANGED <<pc, phase, n, submitted>>]_vars
    /\ []((pc = "wait" /\ \A t \in TaskSet : t.st \in {"returned", "raised"})
              => ENABLED Wait)
    /\ [][(pc = "wait" /\ pc' # "wait") =>
              /\ Count({t \in Batch : Terminal(t)}) = n
              /\ \/ phase < 3 /\ phase' = phase + 1 /\ pc' = "begin"
                 \/ phase = 3 /\ phase' = phase /\ pc' = "shutdown"]_vars
    /\ (\E t \in TaskSet : t.st = "raised")
           ~> (pc = "done" /\ phase = 3
               /\ Count({t \in Batch : Terminal(t)}) = n)

\* the list of the add batch, which holds an invocation that raised, is
\* being taken apart while a call of the query batch is in flight
FaultsCapturedWitness ==
    /\ phase = 2 /\ pc = "release"
    /\ \E t, u \in TaskSet :
           /\ t.fn = "add_random_order" /\ t.st = "raised"
           /\ u.fn = "query_random_orders" /\ InFlightTask(u)
    /\ Count({t \in TaskSet : t.fn = "add_random_order"}) < 10

\* C13 (exactly-once dispatch): the batch holds exactly the invocations
\* submitted so far, each was started once if it is no longer queued and
\* not at all if it is, has put the head of its one request on the wire
\* once its first send has returned and nothing before, and has sent the
\* request in full once connection.request has returned, so neither the
\* requests the server sees begin nor the requests sent in full ever exceed
\* the submissions nor n; and in a drained batch all n invocations were
\* started once, the requests begun number n less the invocations that
\* raised before sending anything, and the requests sent in full n less
\* those that raised before their request was out.
ExactlyOnceDispatch ==
    /\ \A t \in TaskSet :
           /\ t.runs = (IF t.st = "queued" THEN 0 ELSE 1)
           /\ t.sent <= t.head /\ t.head <= t.runs
           /\ t.st \in {"queued", "connecting", "connected"} =>
                  (t.head = 0 /\ t.sent = 0)
           /\ t.st = "headed" =>
                  (t.head = 1 /\ t.sent = 0 /\ t.fn = "add_random_order")
           /\ t.st \in {"awaiting", "hung", "responded", "read", "printing",
                        "returned"}
                  => (t.head = 1 /\ t.sent = 1)
    /\ pc \in {"submit", "release", "wait"} =>
           /\ Count(Batch) = submitted
           /\ StartsOf(Batch) <= submitted
           /\ HeadsOf(Batch) <= StartsOf(Batch)
           /\ RequestsOf(Batch) <= HeadsOf(Batch)
           /\ submitted <= n
    /\ (pc = "wait" /\ WaitReady) =>
           /\ StartsOf(Batch) = n
           /\ HeadsOf(Batch) =
                  n - Count({t \in Batch : t.st = "raised" /\ t.head = 0})
           /\ RequestsOf(Batch) =
                  n - Count({t \in Batch : t.st = "raised" /\ t.sent = 0})

\* a drained add batch of 20 in which the send of one body failed: the
\* server saw 20 requests begin, 19 went out in full
ExactlyOnceDispatchWitness ==
    /\ pc = "wait" /\ n = 20
    /\ \A t \in TaskSet : Terminal(t)
    /\ \E t \in Batch : t.fault = "send"
    /\ StartsOf(Batch) = 20
    /\ HeadsOf(Batch) = 20
    /\ RequestsOf(Batch) = 19

====
